---- MODULE Spec2Model ----
(***************************************************************************)
(* opengrok-manager (opengrok_manager/main.py): reconciliation of the      *)
(* desired project list read from stdin against the projects registered   *)
(* in the OpenGrok service, with the per-project metadata store            *)
(* (project.json), the git/archive source downloader and the retried       *)
(* reindex call.                                                           *)
(*                                                                         *)
(* Optional[T] values are sequences of length <= 1: None is << >> and a    *)
(* present value x is << x >>.  File names with dots (archive extensions,  *)
(* URL suffixes) and hex digests are sequences of their pieces, so that    *)
(* lstrip, lower, suffix extraction and hexdigest are computed.            *)
(***************************************************************************)
EXTENDS Integers, Sequences, FiniteSets, TLC

\* ------------------------------------------------------------------------
\* Bounds of the model
\* ------------------------------------------------------------------------
MaxCommit == 2        \* commit ids the upstream branch can reach
MaxRetries == 1       \* largest value of --reindex-retries besides the default

DefaultReindexRetries == 3

Names == {"A", "B"}

None == << >>
Some(x) == << x >>
IsNone(o) == o = << >>
Get(o) == o[1]

\* ------------------------------------------------------------------------
\* Data classes (GitSpec, HashSpec, ArchiveFileSpec, Project)
\* ------------------------------------------------------------------------
GitSpec(url, ref, depth) == [url |-> url, ref |-> ref, depth |-> depth]
HashSpec(algorithm, value) == [algorithm |-> algorithm, value |-> value]
ArchiveFileSpec(url, extension, digest) ==
    [url |-> url, extension |-> extension, digest |-> digest]
Project(name, git, archive) == [name |-> name, git |-> git, archive |-> archive]

\* ------------------------------------------------------------------------
\* ProjectJsonManager: three locations per project name.
\*   S.new[n]      ${data_dir}/n/project.json      (canonical)
\*   S.old_src[n]  ${src_dir}/n.project.json       (legacy)
\*   S.old_data[n] ${data_dir}/n.project.json      (legacy)
\* A file is None (absent) or Some(text); a text is [valid, project]:
\* valid = FALSE is a file Project.from_json cannot decode.
\* ------------------------------------------------------------------------
ToJson(project) == [valid |-> TRUE, project |-> project]
Garbage == [valid |-> FALSE, project |-> Project("", None, None)]

MigrateOne(S, loc, n) ==
    IF IsNone(S[loc][n]) THEN S
    ELSE IF IsNone(S.new[n])
         THEN [S EXCEPT !.new[n] = S[loc][n], ![loc][n] = None]
         ELSE [S EXCEPT ![loc][n] = None]

\* Mutant of migrate_project: the two legacy locations are tried in the
\* other order.
migrate_project_DataFirst(S, n) ==
    MigrateOne(MigrateOne(S, "old_data", n), "old_src", n)

migrate_project(S, n) == MigrateOne(MigrateOne(S, "old_src", n), "old_data", n)

\* Mutant of load_project: the embedded name is not compared (line 147).
load_project_NoNameCheck(S, n) ==
    LET T == migrate_project(S, n)
        f == T.new[n]
    IN  [store |-> T,
         project |-> IF IsNone(f) THEN None
                     ELSE IF ~Get(f).valid THEN None
                     ELSE Some(Get(f).project)]

\* load_project: the store after the migration, and the Optional[Project] read.
load_project(S, n) ==
    LET T == migrate_project(S, n)
        f == T.new[n]
    IN  [store |-> T,
         project |-> IF IsNone(f) THEN None
                     ELSE IF ~Get(f).valid THEN None
                     ELSE IF Get(f).project.name # n THEN None
                     ELSE Some(Get(f).project)]

save_project(S, project) ==
    LET T == migrate_project(S, project.name)
    IN  [T EXCEPT !.new[project.name] = Some(ToJson(project))]

json_delete_project(S, n) ==
    LET T == migrate_project(S, n)
    IN  [T EXCEPT !.new[n] = None]

\* ------------------------------------------------------------------------
\* The world outside the program.
\*   Upstream git repository: one branch "main" (also the remote HEAD) whose
\*   tip is the commit id `remote`, and one tag "v1.0" fixed on commit 1.
\*   Archive server: the bytes it serves are `data`, "good" or "corrupt".
\* ------------------------------------------------------------------------
Tags == {"v1.0"}
Branches == {"main", "HEAD"}

\* The commit a ref names upstream (None: no such ref).  No name is both a
\* tag and a branch, so clone --branch and the tag-first reset of lines
\* 235-260 agree on the commit.
RemoteCommit(remote, ref) ==
    IF ref \in Tags THEN Some(1)
    ELSE IF ref \in Branches THEN Some(remote)
    ELSE None

\* hashlib.sha1 / hashlib.sha256 followed by hexdigest(): lower-case hex.
hexdigest(algorithm, data) ==
    IF algorithm = "sha1"
    THEN (IF data = "good" THEN <<"c", "2">> ELSE <<"0", "d">>)
    ELSE (IF data = "good" THEN <<"a", "1">> ELSE <<"f", "0">>)

\* str.lower() on one dot-free piece of a file name or one hex digit.
LowerWord(w) ==
    CASE w = "ZIP" -> "zip"
      [] w = "TAR" -> "tar"
      [] w = "GZ"  -> "gz"
      [] w = "A"   -> "a"
      [] w = "C"   -> "c"
      [] w = "D"   -> "d"
      [] w = "F"   -> "f"
      [] OTHER     -> w

lower(e) == [i \in 1..Len(e) |-> LowerWord(e[i])]

\* str.lstrip("."): a leading dot is a leading empty piece.
RECURSIVE lstrip_dots(_)
lstrip_dots(e) ==
    IF Len(e) > 1 /\ Head(e) = "" THEN lstrip_dots(Tail(e)) ELSE e

\* pathlib.Path(url).suffixes: the pieces after the first one.
suffixes(url) == Tail(url)

\* Lines 310-325: the extension (None: ValueError, no extension in the URL).
DetermineExtension(archive_spec) ==
    LET sfx == suffixes(archive_spec.url)
        k   == Len(sfx)
        raw == IF ~IsNone(archive_spec.extension) THEN archive_spec.extension
               ELSE IF k = 0 THEN None
               ELSE IF k >= 2 /\ sfx[k - 1] = "tar"
                    THEN Some(<<"", sfx[k - 1], sfx[k]>>)
                    ELSE Some(<<"", sfx[k]>>)
    IN  IF IsNone(raw) THEN None ELSE Some(lstrip_dots(Get(raw)))

\* Mutant of verify_hash: the comparison never raises.
verify_hash_Skipped(data, digest) == TRUE

\* _verify_hash: TRUE when no ValueError is raised.
verify_hash(data, digest) == hexdigest(digest.algorithm, data) = digest.value

\* ------------------------------------------------------------------------
\* ${src_dir}/<name>/ : exists, has a .git entry, the checked out commit,
\* and (history) the project spec whose acquisition produced the tree.
\* ------------------------------------------------------------------------
NoDir == [exists |-> FALSE, git |-> FALSE, head |-> 0, by |-> None]
Worktree(head, project) ==
    [exists |-> TRUE, git |-> TRUE, head |-> head, by |-> Some(project)]
Extracted(project) ==
    [exists |-> TRUE, git |-> FALSE, head |-> 0, by |-> Some(project)]

\* One entry of the log of calls of a run: the operation, the project name
\* and how it ended.
EvR(op, name, res) == [op |-> op, name |-> name, res |-> res]

\* Result of an acquisition: raised (an exception propagates), changed (the
\* returned bool), the store, the target directory and the archive files
\* afterwards, and the external calls made.
Acq(raised, changed, S, dir, arch, events) ==
    [raised |-> raised, changed |-> changed, store |-> S, dir |-> dir,
     archives |-> arch, events |-> events]

\* Mutant of use_existing_repo: the record comparison is inverted.
use_existing_repo_Inverted(target_dir, old_project, project) ==
    /\ target_dir.exists
    /\ target_dir.git
    /\ old_project # Some(project)

\* _download_git.  git_ok: the git commands exit 0.
use_existing_repo(target_dir, old_project, project) ==
    /\ target_dir.exists
    /\ target_dir.git
    /\ old_project = Some(project)

\* Mutant of download_git: the reuse path reports a change without comparing
\* the commit ids (line 275).
download_git_AlwaysChanged(project, S, target_dir, arch, remote, git_ok) ==
    LET git_spec == Get(project.git)
        ld  == load_project(S, project.name)
        ref == IF IsNone(git_spec.ref) THEN "HEAD" ELSE Get(git_spec.ref)
        tip == RemoteCommit(remote, ref)
        n   == project.name
    IN  IF use_existing_repo(target_dir, ld.project, project)
        THEN IF git_ok /\ ~IsNone(tip)
             THEN Acq(FALSE, TRUE, ld.store,
                      [target_dir EXCEPT !.head = Get(tip)], arch,
                      <<EvR("fetch", n, "ok")>>)
             ELSE Acq(TRUE, FALSE, ld.store, target_dir, arch,
                      <<EvR("fetch", n, "nonzero")>>)
        ELSE IF git_ok /\ ~IsNone(tip)
             THEN Acq(FALSE, TRUE, ld.store, Worktree(Get(tip), project), arch,
                      <<EvR("clone", n, "ok")>>)
             ELSE Acq(TRUE, FALSE, ld.store, NoDir, arch,
                      <<EvR("clone", n, "nonzero")>>)

download_git(project, S, target_dir, arch, remote, git_ok) ==
    LET git_spec == Get(project.git)
        ld  == load_project(S, project.name)
        ref == IF IsNone(git_spec.ref) THEN "HEAD" ELSE Get(git_spec.ref)
        tip == RemoteCommit(remote, ref)
        n   == project.name
    IN  IF use_existing_repo(target_dir, ld.project, project)
        THEN IF git_ok /\ ~IsNone(tip)
             THEN Acq(FALSE, target_dir.head # Get(tip), ld.store,
                      [target_dir EXCEPT !.head = Get(tip)], arch,
                      <<EvR("fetch", n, "ok")>>)
             ELSE Acq(TRUE, FALSE, ld.store, target_dir, arch,
                      <<EvR("fetch", n, "nonzero")>>)
        ELSE IF git_ok /\ ~IsNone(tip)
             THEN Acq(FALSE, TRUE, ld.store, Worktree(Get(tip), project), arch,
                      <<EvR("clone", n, "ok")>>)
             ELSE Acq(TRUE, FALSE, ld.store, NoDir, arch,
                      <<EvR("clone", n, "nonzero")>>)

\* _download_archive.  http_ok: the GET answers with a success status; data:
\* the bytes served; tool_ok: unzip / tar exits 0.
ExtractKind(extension) ==
    LET extension_lower == lower(extension)
    IN  IF extension_lower = <<"zip">> THEN "zip"
        ELSE IF extension_lower = <<"tar">>
                \/ (Len(extension_lower) >= 2 /\ extension_lower[1] = "tar")
             THEN "tar"
        ELSE "unsupported"

\* Mutant of archive_unchanged: an existing directory is kept without
\* looking at the record.
archive_unchanged_IgnoresRecord(target_dir, old_project, archive_spec) ==
    target_dir.exists

\* lines 328-332: the directory exists and the record has this archive origin.
archive_unchanged(target_dir, old_project, archive_spec) ==
    /\ target_dir.exists
    /\ ~IsNone(old_project)
    /\ Get(old_project).archive = Some(archive_spec)

download_archive(project, S, target_dir, arch, http_ok, data, tool_ok) ==
    LET archive_spec == Get(project.archive)
        ext == DetermineExtension(archive_spec)
        n   == project.name
        \* lines 328-334
        ld  == IF target_dir.exists THEN load_project(S, n)
               ELSE [store |-> S, project |-> None]
        same == archive_unchanged(target_dir, ld.project, archive_spec)
        \* lines 345-384: TRUE when the try block runs to its end
        verified == IsNone(archive_spec.digest)
                    \/ verify_hash(data, Get(archive_spec.digest))
        extracted == ExtractKind(Get(ext)) # "unsupported" /\ tool_ok
        events == <<EvR("http_get", n, IF http_ok THEN data ELSE "error")>>
                  \o (IF http_ok /\ verified /\ ExtractKind(Get(ext)) # "unsupported"
                      THEN <<EvR("extract", n, IF tool_ok THEN "ok" ELSE "nonzero")>>
                      ELSE << >>)
    IN  IF IsNone(ext) THEN Acq(TRUE, FALSE, S, target_dir, arch, << >>)
        ELSE IF same THEN Acq(FALSE, FALSE, ld.store, target_dir, arch, << >>)
        ELSE IF ~http_ok THEN Acq(TRUE, FALSE, ld.store, NoDir, arch, events)
        ELSE IF verified /\ extracted
             THEN Acq(FALSE, TRUE, ld.store, Extracted(project),
                      arch \cup {Get(ext)}, events)
             ELSE Acq(TRUE, FALSE, ld.store, NoDir, arch \ {Get(ext)}, events)

\* Mutant of download: the archive origin is looked at first.
download_ArchiveFirst(project, S, target_dir, arch, remote, net) ==
    IF ~IsNone(project.archive)
    THEN download_archive(project, S, target_dir, arch, net.http_ok, net.data,
                          net.tool_ok)
    ELSE IF ~IsNone(project.git)
    THEN download_git(project, S, target_dir, arch, remote, net.tool_ok)
    ELSE Acq(TRUE, FALSE, S, target_dir, arch, << >>)

\* SourceCodeDownloader.download: git first, then archive, else ValueError.
download(project, S, target_dir, arch, remote, net) ==
    IF ~IsNone(project.git)
    THEN download_git(project, S, target_dir, arch, remote, net.tool_ok)
    ELSE IF ~IsNone(project.archive)
    THEN download_archive(project, S, target_dir, arch, net.http_ok, net.data,
                          net.tool_ok)
    ELSE Acq(TRUE, FALSE, S, target_dir, arch, << >>)

\* What the network and the child processes can do during one acquisition.
Net == [http_ok : BOOLEAN, data : {"good", "corrupt"}, tool_ok : BOOLEAN]

\* ------------------------------------------------------------------------
\* State
\* ------------------------------------------------------------------------
VARIABLES
    expected_projects,      \* parsed stdin, in document order (line 564)
    reindex_retries,        \* args.reindex_retries
    registered,             \* names the OpenGrok service has registered
    store,                  \* project.json files (canonical and legacy)
    src_dir,                \* ${src_dir}/<name>/ per name
    archives,               \* extensions e with ${data_dir}/<name>/archive.e
    remote,                 \* tip of the upstream branch
    pc,                     \* position in main()
    actual_projects,        \* result of client.get_projects()
    invalid_project_names,  \* get_projects: names still to delete
    extra_project_names,    \* main: extras still to delete
    idx,                    \* position of the for loop in expected_projects
    need_recreate,          \* local of the loop body
    attempt,                \* tenacity attempt number of the current reindex
    calls,                  \* log of the calls of the current run
    start,                  \* history: service and files when the run began
    pushed,                 \* history: upstream moved since the run ended
    prev_clean,             \* history: see Restart
    unindexed               \* history: see NextRunTracking

vars == <<expected_projects, reindex_retries, registered, store, src_dir,
          archives, remote, pc, actual_projects, invalid_project_names,
          extra_project_names, idx, need_recreate, attempt, calls,
          start, pushed, prev_clean, unindexed>>

config == <<expected_projects, reindex_retries>>
disk   == <<store, src_dir, archives>>
locals == <<actual_projects, invalid_project_names, extra_project_names, idx,
            need_recreate, attempt>>
hist   == <<start, pushed, prev_clean, unindexed>>

\* What a run starts from, kept for the properties: the names the service
\* has registered, the names whose canonical record decodes to a project of
\* that name, the names whose canonical record is the given project, and
\* the names with a git worktree in the source directory.
Resolvable(S, n) ==
    /\ S.new[n] # None
    /\ S.new[n][1].valid
    /\ S.new[n][1].project.name = n

Snapshot(reg, S, dirs, arch) ==
    [registered |-> reg,
     resolvable |-> {n \in Names : Resolvable(S, n)},
     worktree   |-> {n \in Names : dirs[n].exists /\ dirs[n].git},
     record     |-> [n \in Names |-> IF Resolvable(S, n)
                                     THEN <<S.new[n][1].project>> ELSE << >>]]

\* ProjectDefsJson.parse: a dict keyed by name, in insertion order; a later
\* entry of the same name replaces the value and keeps the first position.
RECURSIVE parse(_)
parse(projects) ==
    IF projects = << >> THEN << >>
    ELSE LET init == parse(SubSeq(projects, 1, Len(projects) - 1))
             last == projects[Len(projects)]
         IN  IF \E i \in 1..Len(init) : init[i].name = last.name
             THEN [i \in 1..Len(init) |->
                      IF init[i].name = last.name THEN last ELSE init[i]]
             ELSE Append(init, last)

ExpectedNames == {expected_projects[i].name : i \in 1..Len(expected_projects)}

\* get_projects, lines 423-432: load every reported name.
RECURSIVE LoadAll(_, _)
LoadAll(S, names) ==
    IF names = {} THEN S
    ELSE LET n == CHOOSE x \in names : TRUE
         IN  LoadAll(load_project(S, n).store, names \ {n})

Abort(ev) ==
    /\ pc' = "aborted"
    /\ calls' = Append(calls, ev)

\* lines 419-432: query the service and read the records.
GetProjects ==
    /\ pc = "get_projects"
    /\ \E api_ok \in BOOLEAN :
         IF api_ok
         THEN /\ store' = LoadAll(store, registered)
              /\ actual_projects' =
                    [n \in Names |-> IF n \in registered
                                     THEN load_project(store, n).project
                                     ELSE None]
              /\ invalid_project_names' =
                    {n \in registered : IsNone(load_project(store, n).project)}
              /\ pc' = "delete_invalid"
              /\ calls' = Append(calls, EvR("get_project_names", "-", "ok"))
              /\ UNCHANGED <<config, registered, src_dir, archives, remote,
                             extra_project_names, idx, need_recreate, attempt, hist>>
         ELSE /\ Abort(EvR("get_project_names", "-", "error"))
              /\ UNCHANGED <<config, registered, disk, remote, locals, hist>>

\* Mutant of delete_project: the record is left in the metadata store.
delete_project_KeepsRecord(reg, S, n, tool_ok) ==
    IF tool_ok
    THEN [raised |-> FALSE, registered |-> reg \ {n}, store |-> S]
    ELSE [raised |-> TRUE, registered |-> reg, store |-> S]

\* OpenGrokClient.delete_project: projadm --delete, then the record.
\* tool_ok: the tool exits 0.  Gives the service and the store afterwards.
delete_project(reg, S, n, tool_ok) ==
    IF tool_ok
    THEN [raised |-> FALSE, registered |-> reg \ {n},
          store |-> json_delete_project(S, n)]
    ELSE [raised |-> TRUE, registered |-> reg, store |-> S]

\* lines 434-435: one iteration of the loop over the invalid names.
DeleteInvalid ==
    /\ pc = "delete_invalid"
    /\ \E n \in invalid_project_names, tool_ok \in BOOLEAN :
         LET d == delete_project(registered, store, n, tool_ok)
         IN  /\ registered' = d.registered
             /\ store' = d.store
             /\ invalid_project_names' =
                   IF d.raised THEN invalid_project_names
                   ELSE invalid_project_names \ {n}
             /\ IF d.raised
                THEN Abort(EvR("delete", n, "nonzero"))
                ELSE /\ calls' = Append(calls, EvR("delete", n, "ok"))
                     /\ pc' = pc
    /\ UNCHANGED <<config, src_dir, archives, remote, actual_projects,
                   extra_project_names, idx, need_recreate, attempt, hist>>

\* Mutant of ExtraNames: the set difference is taken the wrong way round.
ExtraNames_Reversed(act, exp) == exp \ {n \in Names : ~IsNone(act[n])}

\* line 576
ExtraNames(act, exp) == {n \in Names : ~IsNone(act[n])} \ exp

\* lines 437, 573-576: get_projects returns; the extras are computed.
ReturnProjects ==
    /\ pc = "delete_invalid"
    /\ invalid_project_names = {}
    /\ extra_project_names' = ExtraNames(actual_projects, ExpectedNames)
    /\ pc' = "delete_extra"
    /\ UNCHANGED <<config, registered, disk, remote, actual_projects,
                   invalid_project_names, idx, need_recreate, attempt, calls, hist>>

\* lines 577-579: one iteration of the loop over the extras.
DeleteExtra ==
    /\ pc = "delete_extra"
    /\ \E n \in extra_project_names, tool_ok \in BOOLEAN :
         LET d == delete_project(registered, store, n, tool_ok)
         IN  /\ registered' = d.registered
             /\ store' = d.store
             /\ extra_project_names' =
                   IF d.raised THEN extra_project_names
                   ELSE extra_project_names \ {n}
             /\ IF d.raised
                THEN Abort(EvR("delete", n, "nonzero"))
                ELSE /\ calls' = Append(calls, EvR("delete", n, "ok"))
                     /\ pc' = pc
    /\ UNCHANGED <<config, src_dir, archives, remote, actual_projects,
                   invalid_project_names, idx, need_recreate, attempt, hist>>

\* line 581: the for loop starts once the extras are gone.
EnterLoop ==
    /\ pc = "delete_extra"
    /\ extra_project_names = {}
    /\ pc' = "loop"
    /\ idx' = 1
    /\ UNCHANGED <<config, registered, disk, remote, actual_projects,
                   invalid_project_names, extra_project_names, need_recreate,
                   attempt, calls, hist>>

expected == expected_projects[idx]
actual == actual_projects[expected.name]

\* Mutant of NeedRecreate: every project the service reported is recreated.
NeedRecreate_Always(exp, act) == ~IsNone(act)

\* line 586
NeedRecreate(exp, act) == Some(exp) # act /\ ~IsNone(act)

\* lines 581-589: head of the loop body, with the delete on a spec mismatch.
LoopHead ==
    /\ pc = "loop"
    /\ idx <= Len(expected_projects)
    /\ need_recreate' = NeedRecreate(expected, actual)
    /\ IF need_recreate'
       THEN \E tool_ok \in BOOLEAN :
              LET d == delete_project(registered, store, expected.name, tool_ok)
              IN  /\ registered' = d.registered
                  /\ store' = d.store
                  /\ IF d.raised
                     THEN Abort(EvR("delete", expected.name, "nonzero"))
                     ELSE /\ calls' = Append(calls, EvR("delete", expected.name, "ok"))
                          /\ pc' = "download"
       ELSE /\ pc' = "download"
            /\ UNCHANGED <<registered, store, calls>>
    /\ UNCHANGED <<config, src_dir, archives, remote, actual_projects,
                   invalid_project_names, extra_project_names, idx, attempt, hist>>

\* Mutant of NeedAdd: a project the service did not report is not added.
NeedAdd_OnlyRecreate(act, recreate) == recreate

\* line 601
NeedAdd(act, recreate) == IsNone(act) \/ recreate

\* Mutant of AfterDownload: the exception of the acquisition propagates.
AfterDownload_Propagates(raised, changed, act, recreate) ==
    IF raised THEN "aborted"
    ELSE IF ~changed THEN "loop"
    ELSE IF IsNone(act) \/ recreate THEN "add"
    ELSE "reindex"

\* lines 591-603: where main goes after download_source_code.
AfterDownload(raised, changed, act, recreate) ==
    IF raised THEN "loop"
    ELSE IF ~changed THEN "loop"
    ELSE IF NeedAdd(act, recreate) THEN "add"
    ELSE "reindex"

\* lines 591-601: download_source_code and the decision that follows.
Download ==
    /\ pc = "download"
    /\ \E net \in Net :
         LET n == expected.name
             r == download(expected, store, src_dir[n], archives[n], remote, net)
             res == IF r.raised THEN "raised"
                    ELSE IF r.changed THEN "changed" ELSE "unchanged"
         IN  /\ store' = r.store
             /\ src_dir' = [src_dir EXCEPT ![n] = r.dir]
             /\ archives' = [archives EXCEPT ![n] = r.archives]
             /\ calls' = calls \o r.events \o <<EvR("download", n, res)>>
             /\ pc' = AfterDownload(r.raised, r.changed, actual, need_recreate)
             /\ idx' = IF pc' = "loop" THEN idx + 1 ELSE idx
    /\ attempt' = 0
    /\ UNCHANGED <<config, registered, remote, actual_projects,
                   invalid_project_names, extra_project_names, need_recreate, hist>>

\* OpenGrokClient.add_project: projadm --add, GET /configuration, indexer,
\* projadm --refresh, then save_project.  `failing` names the step that
\* fails ("none": all succeed).
AddSteps == {"none", "projadm_add", "configuration", "indexer", "refresh"}

\* Mutant of add_project: the record is written before the tools have run.
add_project_SavesFirst(reg, S, project, failing) ==
    [raised |-> failing # "none",
     registered |-> IF failing = "projadm_add" THEN reg
                    ELSE reg \cup {project.name},
     store |-> save_project(S, project)]

add_project(reg, S, project, failing) ==
    [raised |-> failing # "none",
     registered |-> IF failing = "projadm_add" THEN reg
                    ELSE reg \cup {project.name},
     store |-> IF failing = "none" THEN save_project(S, project) ELSE S]

\* lines 601-603
AddProject ==
    /\ pc = "add"
    /\ \E failing \in AddSteps :
         LET a == add_project(registered, store, expected, failing)
         IN  /\ registered' = a.registered
             /\ store' = a.store
             /\ IF a.raised
                THEN Abort(EvR("add", expected.name,
                               IF failing = "configuration" THEN "error"
                               ELSE "nonzero"))
                ELSE /\ calls' = Append(calls, EvR("add", expected.name, "ok"))
                     /\ pc' = "reindex"
    /\ UNCHANGED <<config, src_dir, archives, remote, locals, hist>>

\* Mutant of stop_after_attempt: one attempt too many.
stop_after_attempt_OffByOne(n, attempt_number) == attempt_number > n

\* tenacity.stop_after_attempt(n): stop once attempt_number >= n.
stop_after_attempt(n, attempt_number) == attempt_number >= n

\* tenacity.retry_if_exception_type(CalledProcessError)
retry_if(outcome) == outcome = "nonzero"

\* Mutant of AfterAttempt: the last failure is swallowed and main goes on.
AfterAttempt_Swallows(outcome, n, attempt_number) ==
    IF outcome = "ok" THEN "return"
    ELSE IF outcome # "nonzero" THEN "raise"
    ELSE IF attempt_number >= n THEN "return"
    ELSE "retry"

\* What the retry wrapper does with the outcome of attempt attempt_number.
AfterAttempt(outcome, n, attempt_number) ==
    IF outcome = "ok" THEN "return"
    ELSE IF ~retry_if(outcome) THEN "raise"
    ELSE IF stop_after_attempt(n, attempt_number) THEN "raise"
    ELSE "retry"

\* lines 605-613: one attempt of reindex_project under the retry wrapper.
\* outcome: "ok", "nonzero" (CalledProcessError) or "error" (any other
\* exception, such as a missing executable).
Reindex ==
    /\ pc = "reindex"
    /\ \E outcome \in {"ok", "nonzero", "error"} :
         LET next == AfterAttempt(outcome, reindex_retries, attempt + 1)
         IN  /\ attempt' = attempt + 1
             /\ calls' = Append(calls, EvR("reindex", expected.name, outcome))
             /\ pc' = CASE next = "return" -> "loop"
                        [] next = "raise"  -> "aborted"
                        [] OTHER           -> "reindex"
             /\ idx' = IF next = "return" THEN idx + 1 ELSE idx
    /\ UNCHANGED <<config, registered, disk, remote, actual_projects,
                   invalid_project_names, extra_project_names, need_recreate, hist>>

\* line 581: the loop is exhausted, main returns.
LoopEnd ==
    /\ pc = "loop"
    /\ idx > Len(expected_projects)
    /\ pc' = "done"
    /\ UNCHANGED <<config, registered, disk, remote, locals, calls, hist>>

\* ------------------------------------------------------------------------
\* Between two runs
\* ------------------------------------------------------------------------

Failure(e) == e.res \in {"raised", "nonzero", "error"}

RunSucceeded == pc = "done" /\ \A i \in 1..Len(calls) : ~Failure(calls[i])

\* The program is started again on the same input and directories.
\* prev_clean: the run that just ended completed with every acquisition and
\* every tool succeeding, and upstream has not moved since.
Restart ==
    /\ pc \in {"done", "aborted"}
    /\ pc' = "get_projects"
    /\ calls' = << >>
    /\ actual_projects' = [n \in Names |-> None]
    /\ invalid_project_names' = {}
    /\ extra_project_names' = {}
    /\ idx' = 0
    /\ need_recreate' = FALSE
    /\ attempt' = 0
    /\ start' = Snapshot(registered, store, src_dir, archives)
    /\ pushed' = FALSE
    /\ prev_clean' = (RunSucceeded /\ ~pushed)
    /\ UNCHANGED <<config, registered, disk, remote>>

NextRun == Restart /\ UNCHANGED unindexed

\* The same, keeping in unindexed the names for which an acquisition of an
\* earlier run reported a change that no reindex has succeeded for since.
NextRunTracking ==
    /\ Restart
    /\ unindexed' =
          {n \in Names :
              /\ \/ n \in unindexed
                 \/ \E k \in 1..Len(calls) : calls[k] = EvR("download", n, "changed")
              /\ ~\E k \in 1..Len(calls) : calls[k] = EvR("reindex", n, "ok")}

\* Somebody pushes to the upstream branch while the program is not running.
UpstreamPush ==
    /\ pc \in {"done", "aborted"}
    /\ ~pushed
    /\ remote < MaxCommit
    /\ remote' = remote + 1
    /\ pushed' = TRUE
    /\ UNCHANGED <<config, registered, disk, pc, locals, calls, start,
                   prev_clean, unindexed>>

\* ------------------------------------------------------------------------
\* Initial states: the input document, and what an earlier life of the
\* installation left in the service, the metadata store and the source
\* directory.  The service keeps its registrations on its own, so they need
\* not agree with the files.
\* ------------------------------------------------------------------------
GitMain(n) == Project(n, Some(GitSpec("u", Some("main"), None)), None)
GitTag(n)  == Project(n, Some(GitSpec("u", Some("v1.0"), None)), None)
ZipSpec    == ArchiveFileSpec(<<"http://h/pkg", "zip">>, None,
                              Some(HashSpec("sha256", <<"a", "1">>)))
TarSpec    == ArchiveFileSpec(<<"http://h/pkg">>, Some(<<"", "TAR", "GZ">>), None)
Zip(n)     == Project(n, None, Some(ZipSpec))
Tar(n)     == Project(n, None, Some(TarSpec))
NoOrigin(n) == Project(n, None, None)
Both(n)    == Project(n, Some(GitSpec("u", Some("main"), None)), Some(ZipSpec))

\* The entries the input document can hold for a name.
Entries(n) ==
    IF n = "A" THEN {GitMain(n), NoOrigin(n), Both(n)}
    ELSE {Zip(n)}

Inputs ==
    {<< >>}
    \cup {<<a>> : a \in Entries("A")}
    \cup {<<b>> : b \in Entries("B")}
    \cup {<<a, b>> : a \in Entries("A"), b \in Entries("B")}
    \cup {<<b, a>> : a \in Entries("A"), b \in Entries("B")}

\* The canonical project.json a name can start with.
Records(n) ==
    IF n = "A" THEN {None, Some(Garbage), Some(ToJson(GitMain(n))),
                     Some(ToJson(GitTag(n)))}
    ELSE {None, Some(ToJson(Zip(n))), Some(ToJson(Tar(n))),
          Some(ToJson(Zip("A")))}

\* The source directory a name can start with, given its record.
Dirs(n, rec) ==
    {NoDir}
    \cup (IF IsNone(rec) \/ ~Get(rec).valid
          THEN {[exists |-> TRUE, git |-> FALSE, head |-> 0, by |-> None]}
          ELSE IF ~IsNone(Get(rec).project.git)
               THEN {Worktree(1, Get(rec).project)}
               ELSE {Extracted(Get(rec).project)})

RetryChoices == (1..MaxRetries) \cup {DefaultReindexRetries}

Init ==
    /\ \E input \in Inputs : expected_projects = parse(input)
    /\ reindex_retries \in RetryChoices
    \* the attempt count is varied on the inputs of at most one project
    /\ reindex_retries # DefaultReindexRetries => Len(expected_projects) <= 1
    /\ registered \in SUBSET Names
    /\ \E new \in [Names -> UNION {Records(n) : n \in Names}] :
         /\ \A n \in Names : new[n] \in Records(n)
         /\ store = [new |-> new, old_src |-> [n \in Names |-> None],
                     old_data |-> [n \in Names |-> None]]
         /\ src_dir \in [Names -> UNION {Dirs(n, new[n]) : n \in Names}]
         /\ \A n \in Names : src_dir[n] \in Dirs(n, new[n])
         \* a name that is neither wanted nor registered is never looked at
         /\ \A n \in Names \ (ExpectedNames \cup registered) :
               IsNone(new[n]) /\ src_dir[n] = NoDir
    /\ archives = [n \in Names |->
                     IF src_dir[n].exists /\ ~src_dir[n].git
                        /\ ~IsNone(src_dir[n].by)
                     THEN {Get(DetermineExtension(
                              Get(Get(src_dir[n].by).archive)))}
                     ELSE {}]
    /\ remote = 1
    /\ pc = "get_projects"
    /\ actual_projects = [n \in Names |-> None]
    /\ invalid_project_names = {}
    /\ extra_project_names = {}
    /\ idx = 0
    /\ need_recreate = FALSE
    /\ attempt = 0
    /\ calls = << >>
    /\ start = Snapshot(registered, store, src_dir, archives)
    /\ pushed = FALSE
    /\ prev_clean = FALSE
    /\ unindexed = {}

Next ==
    \/ GetProjects
    \/ DeleteInvalid
    \/ ReturnProjects
    \/ DeleteExtra
    \/ EnterLoop
    \/ LoopHead
    \/ Download
    \/ AddProject
    \/ Reindex
    \/ LoopEnd
    \/ NextRun
    \/ UpstreamPush

Spec == Init /\ [][Next]_vars

\* The same program with the history variable unindexed kept up to date.
NextTracking ==
    \/ GetProjects
    \/ DeleteInvalid
    \/ ReturnProjects
    \/ DeleteExtra
    \/ EnterLoop
    \/ LoopHead
    \/ Download
    \/ AddProject
    \/ Reindex
    \/ LoopEnd
    \/ NextRunTracking
    \/ UpstreamPush

SpecTracking == Init /\ [][NextTracking]_vars

\* ------------------------------------------------------------------------
\* The acquisition of one archive project with a declared digest, from the
\* point where main stands before download_source_code in a run that found
\* nothing registered and nothing on disk.  The declared value is any string
\* of two hex digits, in either letter case.
\* ------------------------------------------------------------------------
HexDigits == {"0", "1", "2", "a", "c", "d", "f", "A", "C", "D", "F"}
DigestValues == {<<x, y>> : x \in HexDigits, y \in HexDigits}

WithDigest(algorithm, value) ==
    Project("B", None,
            Some(ArchiveFileSpec(<<"http://h/pkg", "zip">>, None,
                                 Some(HashSpec(algorithm, value)))))

\* the variables a specification below does not use
Quiet ==
    /\ reindex_retries = DefaultReindexRetries
    /\ registered = {}
    /\ src_dir = [n \in Names |-> NoDir]
    /\ archives = [n \in Names |-> {}]
    /\ remote = 1
    /\ invalid_project_names = {}
    /\ extra_project_names = {}
    /\ need_recreate = FALSE
    /\ attempt = 0
    /\ pushed = FALSE
    /\ prev_clean = FALSE
    /\ unindexed = {}

InitDigest ==
    /\ \E algorithm \in {"sha1", "sha256"}, value \in DigestValues :
         expected_projects = <<WithDigest(algorithm, value)>>
    /\ Quiet
    /\ store = [new |-> [n \in Names |-> None],
                old_src |-> [n \in Names |-> None],
                old_data |-> [n \in Names |-> None]]
    /\ actual_projects = [n \in Names |-> None]
    /\ pc = "download"
    /\ idx = 1
    /\ calls = <<EvR("get_project_names", "-", "ok")>>
    /\ start = Snapshot(registered, store, src_dir, archives)

NextDigest == Download

SpecDigest == InitDigest /\ [][NextDigest]_vars

\* ------------------------------------------------------------------------
\* ProjectJsonManager on its own: any sequence of load_project, save_project
\* and delete_project on a store whose three locations hold any mix of
\* files.  calls holds the last operation, actual_projects what load_project
\* returned, expected_projects the project given to save_project.
\* ------------------------------------------------------------------------
CanonicalFiles(n) == {None, Some(Garbage), Some(ToJson(GitMain(n)))}
LegacySrcFiles(n) == {None, Some(ToJson(GitTag(n)))}
LegacyDataFiles(n) == {None, Some(Garbage), Some(ToJson(Zip(n)))}

InitStore ==
    /\ \E new \in [Names -> UNION {CanonicalFiles(n) : n \in Names}],
          old_src \in [Names -> UNION {LegacySrcFiles(n) : n \in Names}],
          old_data \in [Names -> UNION {LegacyDataFiles(n) : n \in Names}] :
         /\ \A n \in Names : /\ new[n] \in CanonicalFiles(n)
                             /\ old_src[n] \in LegacySrcFiles(n)
                             /\ old_data[n] \in LegacyDataFiles(n)
         /\ store = [new |-> new, old_src |-> old_src, old_data |-> old_data]
    /\ Quiet
    /\ expected_projects = << >>
    /\ actual_projects = [n \in Names |-> None]
    /\ pc = "store"
    /\ idx = 0
    /\ calls = << >>
    /\ start = Snapshot(registered, store, src_dir, archives)

StoreFrame ==
    UNCHANGED <<reindex_retries, registered, src_dir, archives, remote, pc,
                invalid_project_names, extra_project_names, idx,
                need_recreate, attempt, hist>>

LoadProject ==
    /\ pc = "store"
    /\ \E n \in Names :
         LET ld == load_project(store, n)
         IN  /\ store' = ld.store
             /\ actual_projects' = [actual_projects EXCEPT ![n] = ld.project]
             /\ calls' = <<EvR("load", n, IF IsNone(ld.project) THEN "none"
                                          ELSE "project")>>
    /\ UNCHANGED expected_projects
    /\ StoreFrame

SaveProject ==
    /\ pc = "store"
    /\ \E n \in Names : \E project \in {GitMain(n), Tar(n)} :
         /\ store' = save_project(store, project)
         /\ expected_projects' = <<project>>
         /\ calls' = <<EvR("save", n, "ok")>>
    /\ UNCHANGED actual_projects
    /\ StoreFrame

DeleteProject ==
    /\ pc = "store"
    /\ \E n \in Names :
         /\ store' = json_delete_project(store, n)
         /\ calls' = <<EvR("delete", n, "ok")>>
    /\ UNCHANGED <<expected_projects, actual_projects>>
    /\ StoreFrame

NextStore ==
    \/ LoadProject
    \/ SaveProject
    \/ DeleteProject

SpecStore == InitStore /\ [][NextStore]_vars

\* ------------------------------------------------------------------------
\* Properties
\* ------------------------------------------------------------------------
Idx == 1..Len(calls)
Count(op, n) == Cardinality({k \in Idx : calls[k].op = op /\ calls[k].name = n})
Issued(op, n) == \E k \in Idx : calls[k].op = op /\ calls[k].name = n
Ended == pc \in {"done", "aborted"}
\* the service answered this run's query: start.registered is what it reported
Queried == \E k \in Idx : calls[k] = EvR("get_project_names", "-", "ok")
Pos(n) == CHOOSE i \in 1..Len(expected_projects) : expected_projects[i].name = n
Desired(n) == expected_projects[Pos(n)]
Record(n) == load_project(store, n).project

\* C1: when the previous run completed with every acquisition and every tool
\* succeeding and upstream has not moved since, the run issues no add, no
\* delete and no reindex call.
C1_Idempotence ==
    prev_clean =>
        \A k \in Idx : calls[k].op \notin {"add", "delete", "reindex"}

\* C1 witness: a second run over a git and an archive project, both
\* registered, ends with both acquisitions reporting no change.
C1_Witness ==
    /\ prev_clean
    /\ pc = "done"
    /\ Len(expected_projects) = 2
    /\ registered = ExpectedNames
    /\ \E k \in Idx : calls[k].op = "fetch"
    /\ \A n \in ExpectedNames :
         \E k \in Idx : calls[k] = EvR("download", n, "unchanged")

\* The effects the extras claim asks for, for one extra name n.
Purged(n) ==
    /\ Count("delete", n) = 1
    /\ IsNone(store.new[n])
    /\ \A k \in Idx :
         calls[k].name = n => calls[k].op = "delete"

Extras == start.registered \ ExpectedNames

\* C2 as stated: whenever a run has ended, every reported name absent from
\* the desired set has had exactly one delete call, has no record, and has
\* had no acquisition, add or reindex.
C2_AsStated ==
    (Ended /\ Queried) => \A n \in Extras : Purged(n)

\* C2 amended: the same in every run that reaches the loop over the desired
\* projects, that is, in which the query and every delete of the purge
\* succeeded; and in no run does an extra get a second delete, an
\* acquisition, an add or a reindex, and a delete that succeeded leaves no
\* record.
C2_ExtrasPurged ==
    Queried =>
        \A n \in Extras :
            /\ pc \in {"loop", "download", "add", "reindex", "done"} => Purged(n)
            /\ Count("delete", n) <= 1
            /\ \A k \in Idx : calls[k].name = n => calls[k].op = "delete"
            /\ (\E k \in Idx : calls[k] = EvR("delete", n, "ok"))
                  => IsNone(store.new[n]) /\ n \notin registered

\* C2 witness: a run is done that purged one extra with a valid record and
\* one extra without.
C2_Witness ==
    /\ pc = "done"
    /\ Extras = Names
    /\ start.resolvable = {"B"}
    /\ \A n \in Names : Purged(n)

\* Scenario A: the service reported nothing, the desired set is one git
\* project, and the run is done with every tool having succeeded.
ScenarioA ==
    /\ pc = "done"
    /\ Queried
    /\ start.registered = {}
    /\ Len(expected_projects) = 1
    /\ ~IsNone(expected_projects[1].git)
    /\ IsNone(expected_projects[1].archive)
    /\ \A k \in Idx : ~Failure(calls[k])

ScenarioA_Expected ==
    LET n == expected_projects[1].name
    IN  /\ Count("clone", n) = 1
        /\ Count("add", n) = 1
        /\ Count("reindex", n) = 1
        /\ \A k \in Idx : calls[k].op # "delete"
        /\ Record(n) = Some(expected_projects[1])

\* the run found a worktree whose record is the desired spec
ReusableAtStart(n) ==
    /\ n \in start.worktree
    /\ start.record[n] = Some(Desired(n))

\* C3 as stated: in scenario A the run made one clone, one add and one
\* reindex, no delete, and left the desired spec as the record.
C3_AsStated == ScenarioA => ScenarioA_Expected

\* C3 amended: the same, when the run did not find a git worktree of A
\* together with a record equal to A's desired spec.
C3_FreshProject ==
    (ScenarioA /\ ~ReusableAtStart(expected_projects[1].name))
        => ScenarioA_Expected

\* C3 witness: scenario A ended as expected, from an empty source directory.
C3_Witness ==
    /\ ScenarioA
    /\ start.worktree = {}
    /\ ScenarioA_Expected
    /\ "A" \in registered
    /\ src_dir["A"].git

AcquisitionFailed(k) == calls[k].op = "download" /\ calls[k].res = "raised"

\* C4: a failed acquisition does not abort the run: no add and no reindex is
\* issued for that project, the loop goes on with the next desired project,
\* and a run that is done has acquired every project that comes after it.
C4_FailureIsolation ==
    \A k \in Idx :
        AcquisitionFailed(k) =>
            LET n == calls[k].name
            IN  /\ ~Issued("add", n) /\ ~Issued("reindex", n)
                /\ k = Len(calls) =>
                      /\ pc \in {"loop", "download", "done"}
                      /\ idx = Pos(n) + 1
                /\ pc = "done" =>
                      \A i \in (Pos(n) + 1)..Len(expected_projects) :
                          Issued("download", expected_projects[i].name)

\* C4 witness: the first project's acquisition failed and the second one
\* was acquired, added and reindexed in the same run.
C4_Witness ==
    /\ pc = "done"
    /\ Len(expected_projects) = 2
    /\ \E k \in Idx : AcquisitionFailed(k) /\ calls[k].name = expected_projects[1].name
    /\ \E k \in Idx : calls[k] = EvR("reindex", expected_projects[2].name, "ok")
    /\ \E k \in Idx : calls[k] = EvR("add", expected_projects[2].name, "ok")

\* The failures the program treats as fatal.
FatalEvent(k) ==
    \/ calls[k].op \in {"add", "delete", "get_project_names"} /\ Failure(calls[k])
    \/ calls[k].op = "reindex" /\ calls[k].res = "error"
    \/ /\ calls[k].op = "reindex" /\ calls[k].res = "nonzero"
       /\ Cardinality({j \in 1..k : calls[j].op = "reindex"
                                    /\ calls[j].name = calls[k].name})
            >= reindex_retries

\* C5: a nonzero exit of the add, index, refresh or delete tool, or a reindex
\* that failed on its last allowed attempt, ends the run at once: it is the
\* last call of the run and the run is aborted.
C5_FatalAborts ==
    \A k \in Idx :
        FatalEvent(k) => k = Len(calls) /\ pc = "aborted"

\* C5 witness: the reindex of the first of two projects failed on every
\* allowed attempt and the run is aborted with the second one untouched.
C5_Witness ==
    /\ pc = "aborted"
    /\ Len(expected_projects) = 2
    /\ Count("reindex", expected_projects[1].name) = reindex_retries
    /\ calls[Len(calls)] = EvR("reindex", expected_projects[1].name, "nonzero")
    /\ \A k \in Idx : calls[k].name # expected_projects[2].name

InvalidAtStart == start.registered \ start.resolvable

\* a call that belongs to the removal of extras or to the main loop
AfterPurge(k) ==
    \/ calls[k].op \in {"download", "clone", "fetch", "http_get", "extract",
                         "add", "reindex"}
    \/ calls[k].op = "delete" /\ calls[k].name \notin InvalidAtStart

\* C7: every reported name without a resolvable record has been deleted from
\* the service and from the metadata store before any extra is deleted and
\* before any desired project is acquired, added or reindexed, and the rest
\* of the run treats it as not registered.
C7_InvalidPurgedFirst ==
    Queried =>
        \A n \in InvalidAtStart :
            /\ \A k \in Idx :
                 AfterPurge(k) =>
                     \E j \in 1..(k - 1) : calls[j] = EvR("delete", n, "ok")
            /\ pc \in {"delete_extra", "loop", "download", "add", "reindex", "done"}
                 => /\ IsNone(actual_projects[n])
                    /\ ~Issued("add", n) =>
                          n \notin registered /\ IsNone(store.new[n])

\* C7 witness: an invalid name and a valid extra were both reported; the
\* invalid one is gone and the loop over the extras has not deleted yet.
C7_Witness ==
    /\ pc = "delete_extra"
    /\ InvalidAtStart = {"A"}
    /\ extra_project_names = {"B"}
    /\ "A" \notin registered
    /\ ~IsNone(start.record["B"])
    /\ store.new["A"] = None

\* C8 as stated: a reported name without a resolvable record is deleted and
\* its re-adding is left to a later run: the run that found it invalid
\* issues no add for it.
C8_AsStated ==
    Queried => \A n \in InvalidAtStart : ~Issued("add", n)

\* C8 amended: an invalid project is deleted without the run failing (a run
\* aborts only on a failed call), and if it is still desired it is re-added
\* in the same run as soon as its acquisition succeeds: for a desired name
\* without a resolvable record the acquisition never reports "unchanged",
\* and a reported change is directly followed by the add.  Only when the
\* acquisition fails is the project left unregistered and without a
\* resolvable record, for a later run to add it in the same way.
C8_SelfHeal ==
    Queried =>
        /\ pc = "aborted" => Failure(calls[Len(calls)])
        /\ \A n \in InvalidAtStart :
              ~Issued("delete", n) => pc \in {"delete_invalid", "aborted"}
        /\ \A n \in ExpectedNames \ start.resolvable :
            /\ \A k \in Idx :
                 (calls[k].op = "download" /\ calls[k].name = n) =>
                     /\ calls[k].res # "unchanged"
                     /\ calls[k].res = "changed" =>
                          IF k = Len(calls) THEN pc = "add" /\ expected.name = n
                          ELSE calls[k + 1].op = "add" /\ calls[k + 1].name = n
                     /\ calls[k].res = "raised" =>
                          n \notin registered /\ ~Resolvable(store, n)

\* C8 witness: a desired project with a malformed record was deleted and
\* added again in the same run.
C8_Witness ==
    /\ "A" \in InvalidAtStart
    /\ \E j, k \in Idx :
         /\ j < k
         /\ calls[j] = EvR("delete", "A", "ok")
         /\ calls[k] = EvR("add", "A", "ok")
    /\ Record("A") = Some(Desired("A"))

OriginCount(project) ==
    (IF IsNone(project.git) THEN 0 ELSE 1)
    + (IF IsNone(project.archive) THEN 0 ELSE 1)

BadSpec == \E i \in 1..Len(expected_projects) : OriginCount(expected_projects[i]) # 1

C9_WitnessBoth ==
    /\ pc = "done"
    /\ \E i \in 1..Len(expected_projects) :
         /\ OriginCount(expected_projects[i]) = 2
         /\ \E k \in Idx : calls[k] = EvR("clone", expected_projects[i].name, "ok")
         /\ \E k \in Idx : calls[k] = EvR("add", expected_projects[i].name, "ok")

\* the bytes received by call k do not hash to the declared digest
DigestMismatch(k) ==
    /\ calls[k].op = "http_get"
    /\ calls[k].res \in {"good", "corrupt"}
    /\ LET digest == Get(Desired(calls[k].name).archive).digest
       IN  /\ ~IsNone(digest)
           /\ hexdigest(Get(digest).algorithm, calls[k].res) # Get(digest).value

\* C10: when the downloaded archive does not hash to the declared digest the
\* acquisition fails, the archive file and the target directory are absent
\* afterwards, and the project gets no add and no reindex in that run.
C10_HashMismatchRollback ==
    \A k \in Idx :
        DigestMismatch(k) =>
            LET n == calls[k].name
                ext == Get(DetermineExtension(Get(Desired(n).archive)))
            IN  /\ k < Len(calls)
                /\ calls[k + 1] = EvR("download", n, "raised")
                /\ ~src_dir[n].exists
                /\ ext \notin archives[n]
                /\ ~Issued("add", n) /\ ~Issued("reindex", n)

\* C10 witness: a registered archive project whose directory and archive
\* file existed was downloaded again, the digest did not match, and the run
\* went on to its end.
C10_Witness ==
    /\ pc = "done"
    /\ "B" \in start.registered
    /\ \E k \in Idx : DigestMismatch(k) /\ calls[k].name = "B"
    /\ ~src_dir["B"].exists
    /\ \E k \in Idx : calls[k] = EvR("delete", "B", "ok")

\* the canonical record of n, when it resolves, is the spec that produced
\* the source tree of n, when there is one
RecordMatchesTree(n) ==
    (Resolvable(store, n) /\ src_dir[n].exists)
        => src_dir[n].by = Some(store.new[n][1].project)

\* between the acquisition of n and the save at the end of its add
InWindow(n) == pc = "add" /\ expected.name = n

\* C11: at every run boundary and at every point of a run outside the window
\* between a project's acquisition and the save of its record, a record that
\* exists for a name equals the spec that produced the name's source tree.
C11_PersistedRecord ==
    \A n \in Names : ~InWindow(n) => RecordMatchesTree(n)

\* C12: git acquisition takes the fetch and reset path exactly when the
\* target directory exists, holds a .git entry and the record equals the
\* desired spec; on that path the tree is kept and a change is reported
\* exactly when the checked out commit differs from the one before.  In every
\* other case the old directory is removed and a clone is made: when it
\* returns it reports a change and the tree is the clone of the desired
\* spec, and when it fails no directory is left.
C12_GitReuseOrRecreate ==
    [][(pc = "download" /\ ~IsNone(expected.git)) =>
         LET n == expected.name
             reuse == /\ src_dir[n].exists
                      /\ src_dir[n].git
                      /\ Record(n) = Some(expected)
             k == Len(calls')
             git_call == calls'[k - 1]
             result == calls'[k]
         IN  /\ k = Len(calls) + 2
             /\ result.op = "download" /\ result.name = n
             /\ git_call.name = n
             /\ git_call.op = (IF reuse THEN "fetch" ELSE "clone")
             /\ reuse =>
                  /\ src_dir'[n].exists /\ src_dir'[n].git
                  /\ src_dir'[n].by = src_dir[n].by
                  /\ result.res # "raised" =>
                       (result.res = "changed"
                           <=> src_dir'[n].head # src_dir[n].head)
             /\ ~reuse =>
                  /\ result.res # "unchanged"
                  /\ result.res = "changed" =>
                       /\ src_dir'[n].exists /\ src_dir'[n].git
                       /\ src_dir'[n].by = Some(expected)
                  /\ result.res = "raised" => ~src_dir'[n].exists
      ]_vars

\* C12 witness: a registered project whose worktree and equal record were
\* found by the run was fetched and moved to a new commit, reported as a
\* change.
C12_Witness ==
    /\ "A" \in start.registered \cap ExpectedNames
    /\ ReusableAtStart("A")
    /\ \E k \in Idx :
         /\ calls[k] = EvR("fetch", "A", "ok")
         /\ calls[k + 1] = EvR("download", "A", "changed")
    /\ src_dir["A"].head = 2

\* C13: when the target directory of an archive project exists and the
\* record's archive origin has the desired url, extension and digest, the
\* acquisition reports no change, makes no request and leaves the directory
\* and the archive files as they are; when the directory exists and the
\* origins differ or no record resolves, the old directory is removed before
\* the download: a request is made, and the directory is absent when the
\* acquisition fails and the extraction of the desired archive when it
\* succeeds.
C13_ArchiveEqualitySkip ==
    [][(/\ pc = "download"
        /\ IsNone(expected.git)
        /\ ~IsNone(expected.archive)
        /\ src_dir[expected.name].exists) =>
         LET n == expected.name
             rec == Record(n)
             want == Get(expected.archive)
             equal == /\ ~IsNone(rec)
                      /\ ~IsNone(Get(rec).archive)
                      /\ Get(Get(rec).archive).url = want.url
                      /\ Get(Get(rec).archive).extension = want.extension
                      /\ Get(Get(rec).archive).digest = want.digest
             result == calls'[Len(calls')]
         IN  IF equal
             THEN /\ calls' = Append(calls, EvR("download", n, "unchanged"))
                  /\ src_dir' = src_dir
                  /\ archives' = archives
             ELSE /\ calls'[Len(calls) + 1].op = "http_get"
                  /\ calls'[Len(calls) + 1].name = n
                  /\ result.op = "download" /\ result.res # "unchanged"
                  /\ result.res = "raised" => ~src_dir'[n].exists
                  /\ result.res = "changed" => src_dir'[n] = Extracted(expected)
      ]_vars

\* C13 witness: a run is done in which the registered archive project B,
\* whose directory and equal record were there, was acquired without a
\* request and without a change.
C13_Witness ==
    /\ pc = "done"
    /\ "B" \in start.registered \cap ExpectedNames
    /\ start.record["B"] = Some(Desired("B"))
    /\ \E k \in Idx : calls[k] = EvR("download", "B", "unchanged")
    /\ ~Issued("http_get", "B")
    /\ src_dir["B"] = Extracted(Desired("B"))

\* the iteration of the desired project n is over
Processed(n) == pc = "done" \/ (pc \in {"loop", "download", "add", "reindex"}
                                 /\ idx > Pos(n))

\* the acquisition of n returned in this run
Acquired(n) ==
    \E k \in Idx : /\ calls[k].op = "download"
                   /\ calls[k].name = n
                   /\ calls[k].res # "raised"

\* C14: a desired project whose acquisition succeeded gets neither an add nor
\* a reindex only if the acquisition reported no change and the project is
\* registered and its record equals the desired spec; so a desired project
\* that is not registered is not left unregistered by a run in which its
\* acquisition succeeded.
C14_NoOpRule ==
    \A n \in ExpectedNames :
        (Processed(n) /\ Acquired(n) /\ ~Issued("add", n) /\ ~Issued("reindex", n))
            => /\ \E k \in Idx : calls[k] = EvR("download", n, "unchanged")
               /\ n \in registered
               /\ Record(n) = Some(Desired(n))

\* the desired names the run found registered with a record that resolves
\* and differs from the desired spec
Drifted ==
    {n \in ExpectedNames \cap start.registered :
        /\ ~IsNone(start.record[n])
        /\ start.record[n] # Some(Desired(n))}

Deleted(n) == \E k \in Idx : calls[k] = EvR("delete", n, "ok")
Added(n) == \E k \in Idx : calls[k] = EvR("add", n, "ok")

\* C15 as stated: a registered project whose record differs from the desired
\* spec is deleted from the service before its acquisition, and its record
\* stays in place until the save that follows a successful add.
C15_AsStated ==
    \A n \in Drifted :
        /\ \A k \in Idx :
             (calls[k].name = n /\ calls[k].op # "delete")
                 => \E j \in 1..(k - 1) : calls[j] = EvR("delete", n, "ok")
        /\ ~Added(n) => store.new[n] = Some(ToJson(Get(start.record[n])))

\* C15 amended: such a project is deleted from the service before its
\* acquisition and the same delete removes its record: the record is in
\* place until the delete has succeeded, absent from then until the save
\* that follows a successful add, and the desired spec afterwards.
C15_RecreateOnDrift ==
    \A n \in Drifted :
        /\ \A k \in Idx :
             (calls[k].name = n /\ calls[k].op # "delete")
                 => \E j \in 1..(k - 1) : calls[j] = EvR("delete", n, "ok")
        /\ ~Deleted(n) =>
             /\ store.new[n] = Some(ToJson(Get(start.record[n])))
             /\ n \in registered
        /\ (Deleted(n) /\ ~Added(n)) => IsNone(store.new[n])
        /\ Added(n) => Record(n) = Some(Desired(n)) /\ n \in registered

\* C15 witness: the differing record of A is gone, A has been acquired
\* again and its add has not run yet.
C15_Witness ==
    /\ "A" \in Drifted
    /\ pc = "add"
    /\ expected.name = "A"
    /\ calls[Len(calls)] = EvR("download", "A", "changed")
    /\ Deleted("A")
    /\ IsNone(store.new["A"])
    /\ "A" \notin registered

ChangedAt(k) == calls[k].op = "download" /\ calls[k].res = "changed"

\* the call that follows call k is op for the same project (or, when k is
\* the last call so far, main stands right before it)
FollowsWith(k, op) ==
    IF k = Len(calls)
    THEN pc = op /\ expected.name = calls[k].name
    ELSE calls[k + 1].op = op /\ calls[k + 1].name = calls[k].name

\* where a call stands in the order of one project's iteration
Rank(op) ==
    CASE op = "delete" -> 1
      [] op \in {"clone", "fetch", "http_get", "extract", "download"} -> 2
      [] op = "add" -> 3
      [] OTHER -> 4

\* a call made by the loop over the desired projects
LoopCall(k) ==
    \/ calls[k].op \in {"clone", "fetch", "http_get", "extract", "download",
                         "add", "reindex"}
    \/ calls[k].op = "delete" /\ calls[k].name \in Drifted

\* The parts of the order claim that do not depend on when add is invoked:
\* an add directly follows a reported change; a failed add leaves the record
\* as it was and a successful one leaves the desired spec as the record of a
\* registered project; a reindex directly follows the reported change, the
\* successful add, or a failed attempt of the same project; the calls of one
\* project come in the order delete, acquire, add, reindex, and before
\* every call of the desired projects after it.
OrderOfOperations ==
    /\ \A k \in Idx :
         calls[k].op = "add" =>
             /\ k > 1
             /\ calls[k - 1] = EvR("download", calls[k].name, "changed")
             /\ IF calls[k].res = "ok"
                THEN /\ FollowsWith(k, "reindex")
                     /\ Record(calls[k].name) = Some(Desired(calls[k].name))
                     /\ calls[k].name \in registered
                ELSE Record(calls[k].name) =
                        IF calls[k].name \in start.registered THEN None
                        ELSE start.record[calls[k].name]
    /\ \A k \in Idx :
         calls[k].op = "reindex" =>
             /\ k > 1
             /\ calls[k - 1] \in {EvR("download", calls[k].name, "changed"),
                                  EvR("add", calls[k].name, "ok"),
                                  EvR("reindex", calls[k].name, "nonzero")}
    /\ \A j, k \in Idx :
         (j < k /\ LoopCall(j) /\ LoopCall(k)) =>
             /\ Pos(calls[j].name) <= Pos(calls[k].name)
             /\ calls[j].name = calls[k].name
                  => Rank(calls[j].op) <= Rank(calls[k].op)

\* C16 as stated: when an acquisition reports a change, add is invoked if and
\* only if the project was not registered when the run started or was
\* deleted in this iteration for a differing record, and otherwise reindex
\* follows at once; with the order of operations above.
C16_AsStated ==
    /\ \A k \in Idx :
         ChangedAt(k) =>
             IF calls[k].name \notin start.registered \/ calls[k].name \in Drifted
             THEN FollowsWith(k, "add")
             ELSE FollowsWith(k, "reindex")
    /\ OrderOfOperations

\* C16 amended: add is invoked if and only if the project was not among the
\* projects get_projects returned (not registered when the run started, or
\* registered without a resolvable record and therefore deleted by
\* get_projects) or was deleted in this iteration for a differing record.
C16_OrderOfOperations ==
    /\ \A k \in Idx :
         ChangedAt(k) =>
             IF \/ calls[k].name \notin start.registered
                \/ calls[k].name \in InvalidAtStart
                \/ calls[k].name \in Drifted
             THEN FollowsWith(k, "add")
             ELSE FollowsWith(k, "reindex")
    /\ OrderOfOperations

\* C16 witness: a run is done in which A, registered with an equal record,
\* changed upstream and was reindexed without an add, and B after it was
\* deleted for a differing record, acquired, added and reindexed.
C16_Witness ==
    /\ pc = "done"
    /\ Len(expected_projects) = 2
    /\ expected_projects[1].name = "A"
    /\ "A" \in start.registered
    /\ ~Issued("add", "A")
    /\ \E k \in Idx : calls[k] = EvR("reindex", "A", "ok")
    /\ "B" \in Drifted
    /\ Deleted("B") /\ Added("B")
    /\ calls[Len(calls)] = EvR("reindex", "B", "ok")

\* C17: when an archive acquisition fails after its download has started,
\* be it at the request, at the digest or at the extraction, then no archive
\* file of the desired extension exists for the project, not even one left
\* by an earlier download, and the target directory does not exist.
C17_ArchiveFailureCleanup ==
    \A k \in Idx :
        (AcquisitionFailed(k) /\ Issued("http_get", calls[k].name)) =>
            LET n == calls[k].name
                ext == Get(DetermineExtension(Get(Desired(n).archive)))
            IN  /\ ext \notin archives[n]
                /\ ~src_dir[n].exists

\* C18: the declared digest is compared with the computed one without regard
\* to the letter case of the hex digits: the verification of a received
\* archive succeeds (the extraction follows) exactly when the two are equal
\* after case folding.
C18_DigestCaseInsensitive ==
    \A k \in Idx :
        (/\ calls[k].op = "http_get"
         /\ calls[k].res \in {"good", "corrupt"}
         /\ ~IsNone(Get(Desired(calls[k].name).archive).digest)) =>
            LET digest == Get(Get(Desired(calls[k].name).archive).digest)
                computed_hash == hexdigest(digest.algorithm, calls[k].res)
            IN  (lower(computed_hash) = lower(digest.value))
                    <=> (k < Len(calls) /\ calls[k + 1].op = "extract")

\* what reading the file f as the record of n gives
Decoded(f, n) ==
    IF IsNone(f) THEN None
    ELSE IF ~Get(f).valid THEN None
    ELSE IF Get(f).project.name # n THEN None
    ELSE Some(Get(f).project)

\* the file that is at the canonical location of n once the legacy
\* locations have been dealt with
AfterMigration(S, n) ==
    IF ~IsNone(S.new[n]) THEN S.new[n]
    ELSE IF ~IsNone(S.old_src[n]) THEN S.old_src[n]
    ELSE S.old_data[n]

\* C19: after a load, a save or a delete on a name neither legacy location of
\* that name exists and the files of other names are as before.  A load
\* leaves the canonical file when there was one and otherwise the first
\* legacy file in the order source directory, metadata directory, and
\* returns the project that file decodes to; a save leaves the saved
\* project; a delete leaves no file at all, whether or not there was one.
C19_LegacyMigration ==
    [][pc = "store" =>
         LET op == calls'[1].op
             n  == calls'[1].name
         IN  /\ IsNone(store'.old_src[n]) /\ IsNone(store'.old_data[n])
             /\ \A m \in Names \ {n} :
                  /\ store'.new[m] = store.new[m]
                  /\ store'.old_src[m] = store.old_src[m]
                  /\ store'.old_data[m] = store.old_data[m]
             /\ op = "load" =>
                  /\ store'.new[n] = AfterMigration(store, n)
                  /\ actual_projects'[n] = Decoded(AfterMigration(store, n), n)
             /\ op = "save" =>
                  store'.new[n] = Some(ToJson(expected_projects'[1]))
             /\ op = "delete" => IsNone(store'.new[n])
      ]_vars

\* C19 witness: a load of A has moved the file of the source-directory
\* location to the canonical one and returned its project, although the
\* metadata-directory location held a file as well (the canonical location
\* never starts with that project, and B still has its three files).
C19_Witness ==
    /\ pc = "store"
    /\ calls = <<EvR("load", "A", "project")>>
    /\ store.new["A"] = Some(ToJson(GitTag("A")))
    /\ actual_projects["A"] = Some(GitTag("A"))
    /\ IsNone(store.old_src["A"]) /\ IsNone(store.old_data["A"])
    /\ ~IsNone(store.new["B"])
    /\ ~IsNone(store.old_src["B"]) /\ ~IsNone(store.old_data["B"])

\* C20: a change reported by an acquisition is not lost: when a later run on
\* the same desired set is done with every acquisition and every tool having
\* succeeded, every desired project for which an earlier run reported a
\* change without a successful reindex since has been reindexed by it.
C20_NoChangeLost ==
    RunSucceeded =>
        \A n \in unindexed \cap ExpectedNames :
            \E k \in Idx : calls[k] = EvR("reindex", n, "ok")

\* the desired names the run found registered with a record that resolves
ValidAtStart == {n \in ExpectedNames \cap start.registered :
                    ~IsNone(start.record[n])}

FailedIn(n) == \E k \in Idx : AcquisitionFailed(k) /\ calls[k].name = n

\* C21 as stated: a desired project that was registered with a valid record
\* when the run started and whose acquisition failed in the run is still
\* registered and still has its record.
C21_AsStated ==
    \A n \in ValidAtStart :
        FailedIn(n) => n \in registered /\ ~IsNone(store.new[n])

\* C21 amended: the same when the record equals the desired spec, and the
\* record is then the one the run found.  When the record differs from the
\* desired spec the project has been deleted before the acquisition, and
\* after the failed acquisition it is not registered and has no record.
C21_FailedAcquisition ==
    \A n \in ValidAtStart :
        FailedIn(n) =>
            IF start.record[n] = Some(Desired(n))
            THEN /\ n \in registered
                 /\ store.new[n] = Some(ToJson(Desired(n)))
                 /\ ~Issued("delete", n)
            ELSE /\ Deleted(n)
                 /\ n \notin registered
                 /\ IsNone(store.new[n])

\* C21 witness: a run is done in which the acquisitions of both projects
\* failed: A, whose record equals its desired spec, is still registered with
\* that record, and B, whose record differed, is no longer registered.
C21_Witness ==
    /\ pc = "done"
    /\ ValidAtStart = Names
    /\ FailedIn("A") /\ FailedIn("B")
    /\ start.record["A"] = Some(Desired("A"))
    /\ "A" \in registered
    /\ Record("A") = Some(Desired("A"))
    /\ "B" \in Drifted
    /\ "B" \notin registered

\* C22: when a run is done without a failed add, delete, query or reindex,
\* from whatever it found registered, recorded and on disk, every registered
\* name is desired and has the desired spec as its record, and every desired
\* project whose acquisition succeeded in the run is registered.
C22_Convergence ==
    pc = "done" =>
        /\ \A n \in registered :
             /\ n \in ExpectedNames
             /\ Record(n) = Some(Desired(n))
        /\ \A n \in ExpectedNames : Acquired(n) => n \in registered

\* C22, first part on its own: the registered names of a run that is done
\* are desired and have the desired spec as their record.
C22_RegisteredPart ==
    pc = "done" =>
        \A n \in registered :
            /\ n \in ExpectedNames
            /\ Record(n) = Some(Desired(n))

====
